---- MODULE Spec2Model ----
(***************************************************************************)
(* A model of hoisaai's decision-tree classifiers                          *)
(* (hoisaai/layer_1/model/supervised/classification/decision_tree.py).     *)
(*                                                                         *)
(* A tensor of shape (Batch, Observation, Column) is a sequence of         *)
(* datasets, a dataset a sequence of rows, a row a sequence of integers.   *)
(* A model without a batch axis is a batch of one member.  Floating point  *)
(* values are exact fractions <<numerator, denominator>>, NaN and Inf the  *)
(* two with denominator 0; scores of the entropy criterion are integers    *)
(* scaled by Micro (log2 is tabulated to six decimals).                    *)
(*                                                                         *)
(* The induction engine (DecisionTree.fit, DecisionTree.pre_predict) and   *)
(* the ensemble preparation are not part of the source files at hand:      *)
(* they are modelled from the specification's section 4.1 and 4.3 and from *)
(* the repository's tests.                                                 *)
(***************************************************************************)
EXTENDS Integers, Sequences, FiniteSets, TLC

\* ------------------------------------------------------------- bounds
MaxObs == 2
MaxDepth == 3
MaxFits == 2

Values == {0, 1}
TargetCounts == {1, 2}
SubsetCounts == {1, 2}
SubsetSizes == {2}

\* An attribute that holds None (no tensor yet).
None == <<>>
\* Floating point: <<n, d>> with d > 0 is n/d; NaN and Inf have denominator 0.
NaN == <<0, 0>>
Inf == <<1, 0>>

\* The reference data of the repository's tests.
ReferenceData == << <<1, 2, 3>>, <<4, 5, 6>>, <<7, 8, 9>> >>
ReferenceSample == << <<2, 3>>, <<5, 6>>, <<8, 9>> >>
ReferenceLeaf == << <<7>>, <<0>>, <<0>> >>

Columns == Len(ReferenceData[1])

\* The rows of the generated datasets: the class value 0 and the class value 1, two
\* rows of different classes with the same features, and columns whose values tie.
Rows == {<<0, 0, 1>>, <<1, 1, 0>>, <<1, 0, 1>>}

Datasets == UNION {[1..n -> Rows] : n \in 2..MaxObs} \cup {ReferenceData}

\* ------------------------------------------------------------- tensors
\* A tensor that is computed once, all its elements at a time (f @@ <<>> is f).
Materialize(f) == f @@ <<>>

RECURSIVE SumSeq(_)
SumSeq(s) == IF s = <<>> THEN 0 ELSE Head(s) + SumSeq(Tail(s))

RECURSIVE Pow(_, _)
Pow(b, e) == IF e = 0 THEN 1 ELSE b * Pow(b, e - 1)

RECURSIVE Factorial(_)
Factorial(n) == IF n <= 1 THEN 1 ELSE n * Factorial(n - 1)

RECURSIVE Insert(_, _)
Insert(s, v) ==
    IF s = <<>> \/ v <= Head(s) THEN <<v>> \o s
    ELSE <<Head(s)>> \o Insert(Tail(s), v)

\* Tensor.sort along the observation axis (ascending).
RECURSIVE SortAscending(_)
SortAscending(s) == IF s = <<>> THEN <<>> ELSE Insert(SortAscending(Tail(s)), Head(s))

RECURSIVE Dedupe(_)
Dedupe(s) ==
    IF Len(s) <= 1 THEN s
    ELSE IF s[1] = s[2] THEN Dedupe(Tail(s))
    ELSE <<s[1]>> \o Dedupe(Tail(s))

RECURSIVE Flatten(_)
Flatten(ss) == IF ss = <<>> THEN <<>> ELSE Head(ss) \o Flatten(Tail(ss))

\* Tensor.unique: the sorted distinct values of the whole tensor.
Unique(flat) == Dedupe(SortAscending(flat))

\* Division of two integers as the tensor runtime does it: 0/0 is NaN, a/0 is Inf.
Div(a, b) == IF b = 0 THEN (IF a = 0 THEN NaN ELSE Inf) ELSE <<a, b>>

IsNumber(v) == v[2] # 0

\* Tensor.nan_to_num(nan=0.0, posinf=0.0, neginf=0.0)
NanToNum(v) == IF IsNumber(v) THEN v ELSE <<0, 1>>

\* Product of a float and an integer; NaN is absorbing.
MulInt(v, k) == IF IsNumber(v) THEN <<v[1] * k, v[2]>> ELSE IF v = Inf /\ k # 0 THEN Inf ELSE NaN

\* Comparison of a float with an integer; NaN equals nothing.
EqInt(v, k) == IsNumber(v) /\ v[1] = k * v[2]

FracAdd(v, w) == <<v[1] * w[2] + w[1] * v[2], v[2] * w[2]>>

RECURSIVE FracSum(_)
FracSum(s) == IF s = <<>> THEN <<0, 1>> ELSE FracAdd(Head(s), FracSum(Tail(s)))

\* ------------------------------------------------------------- data
TargetsOf(d, T) == [i \in 1..Len(d) |-> SubSeq(d[i], 1, T)]
FeaturesOf(d, T) == [i \in 1..Len(d) |-> SubSeq(d[i], T + 1, Len(d[i]))]
ColumnOf(m, c) == [i \in 1..Len(m) |-> m[i][c]]
BatchTargets(in, T) == [b \in 1..Len(in) |-> TargetsOf(in[b], T)]
BatchFeatures(in, T) == [b \in 1..Len(in) |-> FeaturesOf(in[b], T)]
FlatTargets(in, T) == Flatten(Flatten(BatchTargets(in, T)))

\* ------------------------------------------------------------- entropy criterion
Micro == 1000000

\* log2(n), scaled by Micro and rounded.
Log2Micro(n) ==
    <<0, 1000000, 1584963, 2000000, 2321928, 2584963, 2807355, 3000000>>[n]

\* 1 * (branches.expand_dimension(-1) == arange(number_of_branches))
BranchOneHot(branches, number_of_branches) ==
    [i \in 1..Len(branches) |->
        [b \in 0..(number_of_branches - 1) |-> IF branches[i] = b THEN 1 ELSE 0]]

\* category_count of one target column, for branch b and the c-th class of unique_y:
\* count_nonzero over the observations of ((branch * in_sample_y) == unique_y).
CategoryCount(ycol, branches, number_of_branches, unique, b, c) ==
    LET branch == BranchOneHot(branches, number_of_branches)
    IN  Cardinality({i \in 1..Len(ycol) : branch[i][b] * ycol[i] = unique[c]})

\* branch.count_nonzero over the observations.
BranchCount(branches, number_of_branches, b) ==
    LET branch == BranchOneHot(branches, number_of_branches)
    IN  Cardinality({i \in 1..Len(branches) : branch[i][b] # 0})

\* (probability.log2() * probability).nan_to_num(0) * (category_count / n), where
\* probability = category_count / branch_count; scaled by Micro * n * n!.
\* 0/0 is NaN, cc/0 is Inf (log2(Inf) * Inf = Inf), log2(0) * 0 = NaN: all become 0.
EntropyTerm(cc, bc, n) ==
    IF bc = 0 \/ cc = 0 THEN 0
    ELSE (Log2Micro(cc) - Log2Micro(bc)) * cc * cc * (Factorial(n) \div bc)

\* DecisionTreeClassifier.information_gain_entropy for one target column and one
\* candidate split; the value is scaled by Micro * n * n!.
information_gain_entropy(ycol, branches, number_of_branches, unique) ==
    LET n == Len(ycol)
        term(b, c) ==
            EntropyTerm(CategoryCount(ycol, branches, number_of_branches, unique, b, c),
                        BranchCount(branches, number_of_branches, b), n)
    IN  Micro * n * Factorial(n)
        + SumSeq([b1 \in 1..number_of_branches |->
                    SumSeq([c \in 1..Len(unique) |-> term(b1 - 1, c)])])

\* The criterion of the repository's test: every candidate scores 1.0.
infromation_gain == Micro

\* ------------------------------------------------------------- induction engine
BranchArity == 2

\* The candidate thresholds of feature column f: the first n - 1 of the sorted values.
Thresholds(x, f) == SubSeq(SortAscending(ColumnOf(x, f)), 1, Len(x) - 1)

\* A comparison that also sends the threshold's own row to branch 1.
CandidateBranchAtLeast(x, f, k) ==
    LET threshold == Thresholds(x, f)[k]
    IN  Materialize([i \in 1..Len(x) |-> IF x[i][f] >= threshold THEN 1 ELSE 0])

\* The branch assignment of every observation under candidate (f, k).
CandidateBranch(x, f, k) ==
    LET threshold == Thresholds(x, f)[k]
    IN  Materialize([i \in 1..Len(x) |-> IF x[i][f] > threshold THEN 1 ELSE 0])

\* The candidates in column-major, then value-ascending order.
Candidates(x) ==
    LET n1 == Len(x) - 1
    IN  [c \in 1..(Len(x[1]) * n1) |-> <<((c - 1) \div n1) + 1, ((c - 1) % n1) + 1>>]

Score(criterion, ycol, branches, unique) ==
    IF criterion = "Entropy"
    THEN information_gain_entropy(ycol, branches, BranchArity, unique)
    ELSE infromation_gain

\* Stable argmax: the first index holding the maximum.
ArgMax(scores) ==
    CHOOSE c \in 1..Len(scores) :
        /\ \A e \in 1..Len(scores) : scores[e] <= scores[c]
        /\ \A e \in 1..(c - 1) : scores[e] < scores[c]

\* The winning split of one batch member d and one target t.
BestSplit(criterion, d, T, t, unique) ==
    LET x == Materialize(FeaturesOf(d, T))
        ycol == Materialize(ColumnOf(TargetsOf(d, T), t))
        cands == Materialize(Candidates(x))
        scores == Materialize([c \in 1..Len(cands) |->
                     Score(criterion, ycol, CandidateBranch(x, cands[c][1], cands[c][2]), unique)])
        best == cands[ArgMax(scores)]
    IN  [feature |-> best[1], k |-> best[2], threshold |-> Thresholds(x, best[1])[best[2]]]

\* A fold that shifts after adding the choice, not before.
RECURSIVE FoldLeafShifted(_, _)
FoldLeafShifted(leaf_code, choices) ==
    IF choices = <<>> THEN leaf_code
    ELSE FoldLeafShifted((leaf_code + Head(choices)) * BranchArity, Tail(choices))

\* leaf_code = leaf_code * branch_arity + branch_choice, level after level.
RECURSIVE FoldLeaf(_, _)
FoldLeaf(leaf_code, choices) ==
    IF choices = <<>> THEN leaf_code
    ELSE FoldLeaf(leaf_code * BranchArity + Head(choices), Tail(choices))

\* DecisionTree.fit, steps 2 and 3: the Split Record and the leaf code of every
\* training row.  Every level scores the same, unfiltered candidates.
EngineFit(criterion, D, in, T, unique) ==
    LET B == Len(in)
        split == Materialize([b \in 1..B |->
                    Materialize([t \in 1..T |-> BestSplit(criterion, in[b], T, t, unique)])])
        won == Materialize([b \in 1..B |-> Materialize([t \in 1..T |->
                  CandidateBranch(FeaturesOf(in[b], T), split[b][t].feature, split[b][t].k)])])
        code(b, i, t) == FoldLeaf(0, Materialize([l \in 1..D |-> won[b][t][i]]))
    IN  [feature_index |-> [l \in 1..D |-> [b \in 1..B |-> [t \in 1..T |-> split[b][t].feature]]],
         threshold |-> [l \in 1..D |-> [b \in 1..B |-> [t \in 1..T |-> split[b][t].threshold]]],
         branch |-> Materialize([b \in 1..B |-> Materialize([i \in 1..Len(in[b]) |->
                       Materialize([t \in 1..T |-> code(b, i, t)])])])]

\* A replay that sends a value equal to the threshold to branch 1.
BranchChoiceAtLeast(value, thr) == IF value >= thr THEN 1 ELSE 0

\* The branch an observation takes at one level of the Split Record.
BranchChoice(value, thr) == IF value > thr THEN 1 ELSE 0

\* DecisionTree.pre_predict: replay of the Split Record on sample_x[b][s][f].
PrePredict(sx, fi, th, T) ==
    LET code(b, s, t) ==
            FoldLeaf(0, Materialize([l \in 1..Len(fi) |->
                            BranchChoice(sx[b][s][fi[l][b][t]], th[l][b][t])]))
    IN  Materialize([b \in 1..Len(sx) |-> Materialize([s \in 1..Len(sx[b]) |->
            Materialize([t \in 1..T |-> code(b, s, t)])])])

\* ------------------------------------------------------------- classification layer
\* The impurity argument of a constructor call: Impurity.ENTROPY, a member of
\* another enumeration (it has a value, which is no known criterion), and a plain
\* string (it has no value attribute).
ENTROPY == [has_value |-> TRUE, value |-> "Entropy"]
ImpurityArgs ==
    {ENTROPY, [has_value |-> TRUE, value |-> "Gini"], [has_value |-> FALSE, value |-> "Entropy"]}

\* A lookup that falls back to the entropy criterion.
CriterionLookupDefault(impurity) == [error |-> "", criterion |-> ENTROPY.value]

\* {Impurity.ENTROPY.value: self.information_gain_entropy}[impurity.value]
CriterionLookup(impurity) ==
    IF ~impurity.has_value THEN [error |-> "AttributeError", criterion |-> ""]
    ELSE IF impurity.value # ENTROPY.value THEN [error |-> "KeyError", criterion |-> ""]
    ELSE [error |-> "", criterion |-> impurity.value]

\* A pre_fit that recomputes the classes on every fit.
pre_fit_always(unique, in_sample_y) == Unique(in_sample_y)

\* DecisionTreeClassifier.pre_fit
pre_fit(unique, in_sample_y) == IF unique = None THEN Unique(in_sample_y) ELSE unique

\* The mask of information_gain_entropy, branch * in_sample_y: 0 outside the leaf.
MaskedTargetZero(onehot, y) == <<onehot * y, 1>>

\* (branch / branch) * in_sample_y for one observation, target and leaf: the target
\* value inside the leaf, NaN outside it.
MaskedTarget(onehot, y) == MulInt(Div(onehot, onehot), y)

\* DecisionTreeClassifier.post_fit for one batch member: count[t][c][l].
post_fit(y, leaf_code, number_of_branches, unique) ==
    LET onehot(i, t, l) == IF leaf_code[i][t] = l THEN 1 ELSE 0
    IN  [t \in 1..Len(y[1]) |-> [c \in 1..Len(unique) |->
            [l \in 0..(number_of_branches - 1) |->
                Cardinality({i \in 1..Len(y) :
                    EqInt(MaskedTarget(onehot(i, t, l), y[i][t]), unique[c])})]]]

\* count.expand_dimension(-4).get_by_index(pre_predict(sample_x)): the class counts
\* of the leaf each sample reaches, g[b][s][t][c].
GatherCount(cnt, leaf_code) ==
    Materialize([b \in 1..Len(leaf_code) |-> Materialize([s \in 1..Len(leaf_code[b]) |->
        Materialize([t \in 1..Len(leaf_code[b][s]) |->
            Materialize([c \in 1..Len(cnt[b][t]) |-> cnt[b][t][c][leaf_code[b][s][t]]])])])])

\* (count / count.sum(axis=-1)).nan_to_num(0) of one class vector.
Normalize(g) ==
    LET total == SumSeq(g)
    IN  Materialize([c \in 1..Len(g) |-> NanToNum(Div(g[c], total))])

\* DecisionTreeClassifier.predict_with_probability, p[b][s][t][c].
MemberProbability(cnt, leaf_code) ==
    LET g == GatherCount(cnt, leaf_code)
    IN  Materialize([b \in 1..Len(g) |-> Materialize([s \in 1..Len(g[b]) |->
            Materialize([t \in 1..Len(g[b][s]) |-> Normalize(g[b][s][t])])])])

\* Tensor.nanmean of the values of the ensemble members.
NanMean(vals) ==
    LET kept == SelectSeq(Materialize(vals), IsNumber)
        total == FracSum(kept)
    IN  IF kept = <<>> THEN NaN ELSE <<total[1], total[2] * Len(kept)>>

\* BaggingClassifier.predict_with_probability: the mean over the ensemble axis.
EnsembleProbability(p) ==
    [s \in 1..Len(p[1]) |-> [t \in 1..Len(p[1][s]) |-> [c \in 1..Len(p[1][s][t]) |->
        NanMean([b \in 1..Len(p) |-> p[b][s][t][c]])]]]

\* DecisionTree.bagging_preparation: member k holds the rows draws[k] of the data.
bagging_preparation(d, draws) ==
    Materialize([k \in 1..Len(draws) |->
        Materialize([r \in 1..Len(draws[k]) |-> d[draws[k][r]]])])

\* ------------------------------------------------------------- the model instance
VARIABLES
    phase,             \* "new", "ready" (constructed) or "raised" (the constructor failed)
    error,             \* the exception the constructor raised, "" if none
    kind,              \* the class constructed
    impurity,          \* the impurity argument of the constructor call
    criterion,         \* the information_gain callback
    depth,
    number_of_subset,
    subset_size,
    number_of_chosen_feature,
    unique_y,          \* self.unique_y
    count,             \* self.count[b][t][c][l]
    feature_index,     \* the Split Record, [level][b][t]
    threshold,
    in_sample,         \* the tensor the last fit handed to the engine
    number_of_target,
    branch,            \* the leaf codes the last fit handed to post_fit
    first_classes,     \* history: the target values of the first pre_fit call
    fits,              \* history: the number of fit calls so far
    sample_x,          \* the argument of the last prediction
    leaf,              \* what pre_predict returned for it
    probability,       \* what predict_with_probability returned for it
    forest             \* a call of random_forest_preparation: its arguments, the subset
                       \* being drawn and the draws made for it so far

vars == <<phase, error, kind, impurity, criterion, depth, number_of_subset, subset_size,
          number_of_chosen_feature, unique_y, count, feature_index, threshold, in_sample, number_of_target, branch,
          first_classes, fits, sample_x, leaf, probability, forest>>

config == <<kind, impurity, criterion, depth, number_of_subset, subset_size,
            number_of_chosen_feature>>
fitted == <<unique_y, count, feature_index, threshold, in_sample, number_of_target, branch,
            first_classes, fits>>
predicted == <<sample_x, leaf, probability>>

Ensembles == {"BaggingClassifier", "RandomForestClassifier"}
Classifiers == {"DecisionTreeClassifier"} \cup Ensembles

NoInstance ==
    /\ phase = "new"
    /\ error = ""
    /\ kind = ""
    /\ impurity = ENTROPY
    /\ criterion = ""
    /\ depth = 0
    /\ number_of_subset = 0
    /\ subset_size = 0
    /\ number_of_chosen_feature = 0
    /\ unique_y = None
    /\ count = None
    /\ feature_index = None
    /\ threshold = None
    /\ in_sample = None
    /\ number_of_target = 0
    /\ branch = None
    /\ first_classes = {}
    /\ fits = 0
    /\ sample_x = None
    /\ leaf = None
    /\ probability = None

Init == NoInstance /\ forest = None

\* DecisionTree(depth, information_gain, pre_fit, post_fit) with the callbacks of the
\* repository's test: a constant criterion and hooks that do nothing.
ConstructEngine(D) ==
    /\ phase = "new"
    /\ phase' = "ready"
    /\ kind' = "DecisionTree"
    /\ criterion' = "Constant"
    /\ depth' = D
    /\ UNCHANGED <<error, impurity, number_of_subset, subset_size, number_of_chosen_feature,
                   fitted, predicted, forest>>

\* DecisionTreeClassifier.__init__, and BaggingClassifier.__init__ and
\* RandomForestClassifier.__init__, which call it before they set their own attributes.
Construct(k, D, imp, chosen, n, size) ==
    /\ phase = "new"
    /\ impurity' = imp
    /\ kind' = k
    /\ LET found == CriterionLookup(imp)
       IN  IF found.error # ""
           THEN /\ phase' = "raised"
                /\ error' = found.error
                /\ UNCHANGED <<criterion, depth, number_of_subset, subset_size,
                               number_of_chosen_feature>>
           ELSE /\ phase' = "ready"
                /\ error' = ""
                /\ criterion' = found.criterion
                /\ depth' = D
                /\ number_of_subset' = IF k \in Ensembles THEN n ELSE 0
                /\ subset_size' = IF k \in Ensembles THEN size ELSE 0
                /\ number_of_chosen_feature' =
                       IF k = "RandomForestClassifier" THEN chosen ELSE 0
    /\ UNCHANGED <<fitted, predicted, forest>>

\* What fit leaves in the instance; only the classifiers install the two hooks.
FitResult(in, T) ==
    LET y == Materialize(FlatTargets(in, T))
        unique == IF kind \in Classifiers THEN pre_fit(unique_y, y) ELSE unique_y
        grown == EngineFit(criterion, depth, in, T, unique)
    IN  [unique_y |-> unique,
         classes |-> {y[i] : i \in 1..Len(y)},
         feature_index |-> grown.feature_index,
         threshold |-> grown.threshold,
         branch |-> grown.branch,
         count |-> IF kind \in Classifiers
                   THEN [b \in 1..Len(in) |->
                           post_fit(TargetsOf(in[b], T), grown.branch[b],
                                    Pow(BranchArity, depth), unique)]
                   ELSE count]

\* The fit calls explored on one instance: an ensemble is fitted once (a fit after a
\* prediction is the fit of the state before it: a prediction changes no attribute).
FitsAllowed == IF kind \in Ensembles THEN 1 ELSE MaxFits

\* fit(in_sample, number_of_target) of the engine, the tree and the bagging
\* classifier; draws are the row indexes the seeded generator of bagging_preparation
\* produces.
Fit(d, T, draws) ==
    /\ phase = "ready"
    /\ fits < FitsAllowed
    /\ sample_x = None
    /\ fits' = fits + 1
    /\ \E in \in {IF kind = "BaggingClassifier" THEN bagging_preparation(d, draws) ELSE <<d>>} :
       \E done \in {FitResult(in, T)} :
           /\ in_sample' = in
           /\ number_of_target' = T
           /\ unique_y' = done.unique_y
           /\ first_classes' = IF fits = 0 THEN done.classes ELSE first_classes
           /\ feature_index' = done.feature_index
           /\ threshold' = done.threshold
           /\ branch' = done.branch
           /\ count' = done.count
    /\ sample_x' = None
    /\ leaf' = None
    /\ probability' = None
    /\ UNCHANGED <<phase, error, config, forest>>

\* The first fit chooses the number of targets, the later ones keep it.  An ensemble
\* is fitted on the data of the repository's test of bagging_preparation.
FitAny ==
    \E d \in (IF kind = "BaggingClassifier" THEN {ReferenceData} ELSE Datasets),
       T \in (IF fits = 0 THEN TargetCounts ELSE {number_of_target}) :
        IF kind = "BaggingClassifier"
        THEN \E draws \in [1..number_of_subset -> [1..subset_size -> 1..Len(d)]] :
                Fit(d, T, draws)
        ELSE Fit(d, T, <<>>)

\* pre_predict(sample_x) of the engine, predict_with_probability(sample_x) of the
\* classifiers.
Predict(sx) ==
    /\ phase = "ready"
    /\ fits > 0
    /\ \E code \in {PrePredict(sx, feature_index, threshold, number_of_target)} :
       \E p \in {IF kind \in Classifiers THEN MemberProbability(count, code) ELSE None} :
           /\ sample_x' = sx
           /\ leaf' = code
           /\ probability' = IF kind = "DecisionTreeClassifier" THEN p[1]
                             ELSE IF kind \in Ensembles THEN EnsembleProbability(p)
                             ELSE None
    /\ UNCHANGED <<phase, error, config, fitted, forest>>

\* The samples of a prediction: the training rows themselves, one row for every
\* ensemble member, or the sample of the repository's test.
Broadcast(rows) == [b \in 1..Len(in_sample) |-> rows]

PredictTraining == Predict(BatchFeatures(in_sample, number_of_target))

PredictRow ==
    \E row \in [1..(Columns - number_of_target) -> Values] : Predict(Broadcast(<<row>>))

PredictReference ==
    /\ Columns - number_of_target = Len(ReferenceSample[1])
    /\ Predict(Broadcast(ReferenceSample))

Next ==
    \/ \E D \in 0..MaxDepth : ConstructEngine(D)
    \/ \E k \in {"DecisionTreeClassifier", "BaggingClassifier"}, D \in 0..MaxDepth,
          imp \in ImpurityArgs, n \in SubsetCounts, size \in SubsetSizes :
              Construct(k, D, imp, 0, n, size)
    \/ FitAny
    \/ PredictTraining
    \/ PredictRow
    \/ PredictReference

Spec == Init /\ [][Next]_vars

\* ------------------------------------------------------------- random forest preparation
\* The arguments of the repository's test of random_forest_preparation.
ReferenceSubsets == 4
ReferenceSubsetSize == 2
ReferenceForest == << << <<7, 8>>, <<1, 2>> >>, << <<7, 9>>, <<7, 9>> >>,
                      << <<4, 6>>, <<4, 5>> >>, << <<7, 8>>, <<7, 8>> >> >>

\* The sequences of n pairwise distinct columns among the columns cols.
DistinctColumns(cols, n) ==
    {q \in [1..n -> cols] : \A i, j \in 1..n : i # j => q[i] # q[j]}

\* One row of the output: the targets of the drawn row in their order, then its
\* values in the feature columns drawn for the subset, in the order drawn.
ForestRow(d, T, row, features) ==
    SubSeq(d[row], 1, T) \o [j \in 1..Len(features) |-> d[row][features[j]]]

\* DecisionTree.random_forest_preparation, one subset of its output: rows are the
\* row indexes drawn with replacement, features the feature columns drawn without
\* replacement for the subset.
random_forest_preparation(d, T, rows, features) ==
    [r \in 1..Len(rows) |-> ForestRow(d, T, rows[r], features)]

ForestSubset ==
    random_forest_preparation(forest.in_sample, forest.number_of_target,
                              forest.rows, forest.features)

ForestComplete ==
    /\ forest # None
    /\ Len(forest.rows) = forest.subset_size
    /\ Len(forest.features) = forest.number_of_chosen_feature

ForestCalls ==
    {[in_sample |-> ReferenceData, number_of_target |-> T, number_of_chosen_feature |-> n,
      number_of_subset |-> ReferenceSubsets, subset_size |-> ReferenceSubsetSize,
      subset |-> 1, rows |-> <<>>, features |-> <<>>] :
        T \in TargetCounts, n \in 1..(Columns - 1)}

InitForest ==
    /\ NoInstance
    /\ forest \in {f \in ForestCalls : f.number_of_chosen_feature <= Columns - f.number_of_target}

\* The generator draws one more row of the subset, with replacement.
DrawRow ==
    /\ Len(forest.rows) < forest.subset_size
    /\ \E row \in 1..Len(forest.in_sample) :
          forest' = [forest EXCEPT !.rows = Append(@, row)]
    /\ UNCHANGED <<phase, error, config, fitted, predicted>>

\* The generator draws the feature columns of the subset, without replacement.
DrawFeatures ==
    /\ Len(forest.rows) = forest.subset_size
    /\ forest.features = <<>>
    /\ \E features \in DistinctColumns((forest.number_of_target + 1)..Columns,
                                      forest.number_of_chosen_feature) :
          forest' = [forest EXCEPT !.features = features]
    /\ UNCHANGED <<phase, error, config, fitted, predicted>>

NextSubset ==
    /\ ForestComplete
    /\ forest.subset < forest.number_of_subset
    /\ forest' = [forest EXCEPT !.subset = @ + 1, !.rows = <<>>, !.features = <<>>]
    /\ UNCHANGED <<phase, error, config, fitted, predicted>>

NextForest == DrawRow \/ DrawFeatures \/ NextSubset

SpecForest == InitForest /\ [][NextForest]_vars

\* ------------------------------------------------------------- random forest classifier
\* The feature columns chosen by the constructions explored.
ChosenCounts == 1..(Columns - 1)

\* RandomForestClassifier.fit hands the output of random_forest_preparation to
\* DecisionTreeClassifier.fit: member k holds the rows rows[k] of the data in the
\* feature columns features[k].  Nothing but that tensor reaches the instance.
ForestPrepared(d, T, rows, features) ==
    Materialize([k \in 1..Len(rows) |->
        Materialize(random_forest_preparation(d, T, rows[k], features[k]))])

\* RandomForestClassifier.fit(in_sample, number_of_target).  forest records the call
\* and the draws of the generator: the instance keeps neither.
FitForest(d, T, rows, features) ==
    /\ phase = "ready"
    /\ kind = "RandomForestClassifier"
    /\ fits < FitsAllowed
    /\ sample_x = None
    /\ number_of_chosen_feature <= Columns - T
    /\ fits' = fits + 1
    /\ \E in \in {ForestPrepared(d, T, rows, features)} :
       \E done \in {FitResult(in, T)} :
           /\ in_sample' = in
           /\ number_of_target' = T
           /\ unique_y' = done.unique_y
           /\ first_classes' = IF fits = 0 THEN done.classes ELSE first_classes
           /\ feature_index' = done.feature_index
           /\ threshold' = done.threshold
           /\ branch' = done.branch
           /\ count' = done.count
    /\ forest' = [in_sample |-> d, number_of_target |-> T,
                  number_of_chosen_feature |-> number_of_chosen_feature,
                  number_of_subset |-> number_of_subset, subset_size |-> subset_size,
                  subset |-> number_of_subset, rows |-> rows, features |-> features]
    /\ error' = ""
    /\ UNCHANGED <<phase, config, predicted>>

\* random_forest_preparation refuses more feature columns than the data has.
FitForestRefused(T) ==
    /\ phase = "ready"
    /\ kind = "RandomForestClassifier"
    /\ fits < FitsAllowed
    /\ number_of_chosen_feature > Columns - T
    /\ error' = "ConfigError"
    /\ UNCHANGED <<phase, config, fitted, predicted, forest>>

FitForestAny ==
    \E d \in Datasets, T \in TargetCounts :
        \/ FitForestRefused(T)
        \/ \E rows \in [1..number_of_subset -> [1..subset_size -> 1..Len(d)]],
              features \in [1..number_of_subset ->
                               DistinctColumns((T + 1)..Columns, number_of_chosen_feature)] :
                 FitForest(d, T, rows, features)

\* The original feature columns of the data passed to fit, for every member.
OriginalColumns == Broadcast(FeaturesOf(forest.in_sample, number_of_target))

\* RandomForestClassifier.predict_with_probability(sample_x) with the original feature
\* columns of the data passed to fit: sample_x goes to pre_predict as it is, which
\* refuses a sample whose feature columns are not as many as those of the fit.
PredictOriginal ==
    /\ kind = "RandomForestClassifier"
    /\ fits > 0
    /\ IF Len(OriginalColumns[1][1]) = Len(in_sample[1][1]) - number_of_target
       THEN Predict(OriginalColumns)
       ELSE /\ phase = "ready"
            /\ error' = "ShapeError"
            /\ UNCHANGED <<phase, config, fitted, predicted, forest>>

NextRandomForest ==
    \/ \E D \in 0..MaxDepth, imp \in ImpurityArgs, chosen \in ChosenCounts,
          n \in SubsetCounts, size \in SubsetSizes :
              Construct("RandomForestClassifier", D, imp, chosen, n, size)
    \/ FitForestAny
    \/ PredictOriginal

SpecRandomForest == Init /\ [][NextRandomForest]_vars

\* ------------------------------------------------------------- properties
TrainingRows == BatchFeatures(in_sample, number_of_target)
TrainingTargets == BatchTargets(in_sample, number_of_target)
LeafCodes == 0..(Pow(BranchArity, depth) - 1)
Members == 1..Len(in_sample)
TargetIndex == 1..number_of_target
ClassifierFitted == kind \in Classifiers /\ fits > 0

\* C1: predicting on the feature columns of the training rows returns, for every
\* (batch, observation, target), the leaf code that fit computed for that row and
\* handed to post_fit.
FitPredictReplayConsistency ==
    (fits > 0 /\ sample_x = TrainingRows) => leaf = branch

ReplayedTrainingRows ==
    /\ ClassifierFitted
    /\ depth >= 2
    /\ sample_x = TrainingRows
    /\ \E b \in Members : \E i, j \in 1..Len(in_sample[b]) :
          leaf[b][i][1] # 0 /\ leaf[b][j][1] = 0

\* C2: with branch arity 2 and depth D (D = 0 included), every leaf code that
\* pre_predict returns and every leaf code handed to post_fit lies in 0 .. 2^D - 1.
LeafCodeRange ==
    /\ fits > 0 =>
          \A b \in Members : \A i \in 1..Len(branch[b]) : \A t \in TargetIndex :
              branch[b][i][t] \in LeafCodes
    /\ leaf # None =>
          \A b \in Members : \A s \in 1..Len(leaf[b]) : \A t \in TargetIndex :
              leaf[b][s][t] \in LeafCodes

DeepestLeafReached ==
    /\ leaf # None
    /\ depth = MaxDepth
    /\ sample_x # TrainingRows
    /\ \E b \in Members : \E s \in 1..Len(leaf[b]) :
          leaf[b][s][1] = Pow(BranchArity, depth) - 1

\* C3 (as claimed): for every sample and target the probability vector has
\* non-negative entries that sum to 1, or it is all zero and the leaf reached had no
\* training row; it holds no NaN and no infinity.
ReachedLeafRows(b, s, t) ==
    Cardinality({i \in 1..Len(in_sample[b]) : branch[b][i][t] = leaf[b][s][t]})

IsSimplex(p) ==
    /\ \A c \in 1..Len(p) : IsNumber(p[c]) /\ p[c][1] >= 0
    /\ FracSum(p)[1] = FracSum(p)[2]

IsAllZero(p) == \A c \in 1..Len(p) : IsNumber(p[c]) /\ p[c][1] = 0

ProbabilitySimplex ==
    probability # None =>
        \A s \in 1..Len(probability) : \A t \in TargetIndex :
            \/ IsSimplex(probability[s][t])
            \/ /\ IsAllZero(probability[s][t])
               /\ \A b \in Members : ReachedLeafRows(b, s, t) = 0

\* A prediction of an ensemble in which one member reaches a leaf without rows and
\* another a leaf with rows.
MixedEnsemblePrediction ==
    /\ probability # None
    /\ kind = "BaggingClassifier"
    /\ \E s \in 1..Len(probability) : \E b1, b2 \in Members :
          ReachedLeafRows(b1, s, 1) = 0 /\ ReachedLeafRows(b2, s, 1) > 0

\* C4: after any sequence of fits, unique_y is the sorted distinct target values of
\* the first fit's data; later fits leave it as it is, whatever classes they bring.
IsSortedDistinct(seq, set) ==
    /\ \A i \in 1..(Len(seq) - 1) : seq[i] < seq[i + 1]
    /\ {seq[i] : i \in 1..Len(seq)} = set

FirstFitWins == ClassifierFitted => IsSortedDistinct(unique_y, first_classes)

RefitWithUnseenClass ==
    /\ ClassifierFitted
    /\ fits = MaxFits
    /\ \E b \in Members : \E i \in 1..Len(in_sample[b]) :
          in_sample[b][i][1] \notin first_classes

\* C5 (as claimed): a depth-3 tree with the constant criterion, fitted on the
\* reference rows with one target, returns the leaf codes [[7], [0], [0]] for the
\* reference sample.
ReferenceFitted ==
    /\ kind = "DecisionTree"
    /\ depth = MaxDepth
    /\ in_sample = <<ReferenceData>>
    /\ number_of_target = 1

SharesColumns(d, T, n, subset) ==
    \E cols \in DistinctColumns((T + 1)..Columns, n) :
        \A r \in 1..Len(subset) : \E i \in 1..Len(d) :
            subset[r] = SubSeq(d[i], 1, T) \o [j \in 1..n |-> d[i][cols[j]]]

ReferenceCall == forest.number_of_target = 1 /\ forest.number_of_chosen_feature = 1

ForestColumnStructure ==
    ForestComplete =>
        /\ SharesColumns(forest.in_sample, forest.number_of_target,
                         forest.number_of_chosen_feature, ForestSubset)
        /\ ReferenceCall =>
              SharesColumns(ReferenceData, 1, 1, ReferenceForest[forest.subset])

\* The third subset of the reference call is complete.
ReferenceSubsetDrawn == ForestComplete /\ ReferenceCall /\ forest.subset = 3

\* The rows [4, 6] and [4, 5] that the test requires as the third subset are no
\* output of a draw that shares its feature columns among the rows of a subset.
RequiredSubsetNeverDrawn ==
    (ForestComplete /\ ReferenceCall) => ForestSubset # ReferenceForest[3]

\* C7 (as claimed): a constructor call with an unknown impurity kind fails with
\* ConfigError.
UnknownImpurity == ~impurity.has_value \/ impurity.value # ENTROPY.value

UnknownImpurityConfigError ==
    (phase # "new" /\ UnknownImpurity) => (phase = "raised" /\ error = "ConfigError")

\* C7 (amended): a constructor call with an unknown impurity kind fails in the call
\* itself, with KeyError when the kind has a value that is no known criterion and
\* with AttributeError when it has no value; no instance results, and a call with a
\* known kind does not fail.
UnknownImpurityLookupError ==
    /\ (phase # "new" /\ kind \in Classifiers /\ UnknownImpurity) =>
          /\ phase = "raised"
          /\ error = IF impurity.has_value THEN "KeyError" ELSE "AttributeError"
          /\ criterion = "" /\ fits = 0
    /\ (phase # "new" /\ ~UnknownImpurity) => (phase = "ready" /\ error = "")

EnsembleConstructorRaised ==
    phase = "raised" /\ kind = "BaggingClassifier" /\ error = "KeyError"

\* C8 (as claimed): for every candidate split, branch b and class c of unique_y, the
\* count the entropy criterion uses is the number of observations the candidate
\* assigns to b whose target is c.
EntropyClassCounts ==
    (ClassifierFitted /\ depth > 0) =>
        \A m \in Members : \A t \in TargetIndex :
            LET x == TrainingRows[m]
                ycol == ColumnOf(TrainingTargets[m], t)
                cands == Candidates(x)
            IN  \A q \in 1..Len(cands) : \A b \in 0..(BranchArity - 1) :
                    \A c \in 1..Len(unique_y) :
                        LET branches == CandidateBranch(x, cands[q][1], cands[q][2])
                        IN  CategoryCount(ycol, branches, BranchArity, unique_y, b, c)
                            = Cardinality({i \in 1..Len(ycol) :
                                            branches[i] = b /\ ycol[i] = unique_y[c]})

\* A fit whose data holds the class value 0 and a candidate that splits the rows.
ZeroClassSplit ==
    /\ ClassifierFitted /\ depth > 0
    /\ unique_y[1] = 0
    /\ \E m \in Members : \E i, j \in 1..Len(in_sample[m]) :
          branch[m][i][1] # branch[m][j][1]

\* C9: after fit, count[batch, target, c, l] is the number of training rows whose
\* leaf code for that target is l and whose value in that target column is the class
\* c of unique_y (0 included); the table is that of the last fit alone.
PostFitClassTable ==
    ClassifierFitted =>
        \A b \in Members : \A t \in TargetIndex : \A c \in 1..Len(unique_y) :
            /\ DOMAIN count[b][t][c] = LeafCodes
            /\ \A l \in LeafCodes :
                  count[b][t][c][l]
                  = Cardinality({i \in 1..Len(in_sample[b]) :
                        branch[b][i][t] = l /\ in_sample[b][i][t] = unique_y[c]})

ReachedLeafRowsOf(b, l) ==
    Cardinality({i \in 1..Len(in_sample[b]) : branch[b][i][1] = l})

RefitCountsZeroClass ==
    /\ ClassifierFitted
    /\ fits = MaxFits
    /\ unique_y[1] = 0
    /\ \E b \in Members : \E l1, l2 \in LeafCodes :
          l1 # l2 /\ count[b][1][1][l1] > 0 /\ ReachedLeafRowsOf(b, l2) > 0

\* C10: the branch choice of an observation at a level is 1 exactly when its value
\* in the level's recorded feature column is greater than the recorded threshold,
\* in fit and in pre_predict alike, and the leaf code is the sum over the levels of
\* choice * 2^(Depth - 1 - level).
ChoiceAt(row, l, b, t) == IF row[feature_index[l][b][t]] > threshold[l][b][t] THEN 1 ELSE 0

MixedRadix(row, b, t) ==
    SumSeq([l \in 1..depth |-> ChoiceAt(row, l, b, t) * Pow(BranchArity, depth - l)])

ForestPredicted == kind = "RandomForestClassifier" /\ fits > 0 /\ leaf # None

ColumnAtFit(k, l, t) == forest.features[k][feature_index[l][k][t]]
ColumnAtPredict(k, l, t) == number_of_target + feature_index[l][k][t]

ForestColumnConsistency ==
    ForestPredicted =>
        \A k \in Members : \A t \in TargetIndex :
            /\ \A l \in 1..depth : ColumnAtPredict(k, l, t) = ColumnAtFit(k, l, t)
            /\ \A r \in 1..Len(forest.rows[k]) :
                  leaf[k][forest.rows[k][r]][t] = branch[k][r][t]

\* A forest with as many chosen columns as the data has features predicted, and a
\* member drew them in another order than the data holds them.
ForestPermutedPrediction ==
    /\ ForestPredicted
    /\ depth > 0
    /\ number_of_chosen_feature = Columns - number_of_target
    /\ \E k \in Members : \E j \in 1..number_of_chosen_feature :
          forest.features[k][j] # number_of_target + j

\* pre_predict refused the original columns of a forest that chose fewer columns.
ForestPredictionRefused ==
    kind = "RandomForestClassifier" /\ fits > 0 /\ error = "ShapeError"


====
